---- MODULE Spec2Model ----
(***************************************************************************)
(* pygrate: the action resolver (_convert_encapsulated_actions), the       *)
(* scheduler (_prioritize_actions, perform_actions, dry_run_actions) and   *)
(* Action.perform with its migrate algorithm, over a filesystem that is a  *)
(* finite map from paths to "dir" or a file's content.                     *)
(***************************************************************************)
EXTENDS Integers, Sequences, FiniteSets, TLC

VARIABLES
    fs,        \* the filesystem: [existing path -> DIR or a file's content]
    fs0,       \* the filesystem before the run
    decls,     \* the mapping given to perform_actions, in iteration order
    resolved,  \* the mapping returned by _convert_encapsulated_actions
    again,     \* the resolver applied to its own result
    queue,     \* the prioritized actions not yet performed
    log,       \* the actions handed to Action.perform so far, in order
    pc,        \* where perform_actions is
    err,       \* the error that ended the run ("" while there is none)
    dry,       \* dry_run
    rev,       \* the order in which a directory lists its entries
    args,      \* the arguments of the Action(...) call being made
    sheet,     \* the rows of the migration sheet, below its header
    row,       \* sheet_to_actions: how many rows it has read
    rowPaths,  \* sheet_to_actions: paths, the paths of the rows without an action
    checked,   \* sheet_to_actions: how many of those paths it has checked
    warnings   \* the paths sheet_to_actions has warned about, in order

vars == <<fs, fs0, decls, resolved, again, queue, log, pc, err, dry, rev,
          args, sheet, row, rowPaths, checked, warnings>>

\* What the steps of perform_actions and Action.perform never touch.
reading == <<args, sheet, row, rowPaths, checked, warnings>>

----------------------------------------------------------------------------
(* Paths: a path is the sequence of its segments, <<>> is the root.        *)

DIR == "dir"

NoPath == <<"">>

\* pathlib: PurePath.suffix is non-empty for a name with an inner dot.
SuffixNames == {"e.x", "d.x"}

HasSuffix(n) == n \in SuffixNames

\* str.lower() on the names of the model.
Lower(n) == IF n = "A" THEN "a" ELSE n

\* The order in which the names sort (a directory listing follows it, or its
\* reverse).
NameOrder == <<"A", "a", "b", "d.x", "e.x", "k", "m", "n", "o", "s", "t">>

NameRank(n) == CHOOSE i \in 1..Len(NameOrder) : NameOrder[i] = n

Name(p) == p[Len(p)]

Parent(p) == SubSeq(p, 1, Len(p) - 1)

\* PurePath.parents: the ancestors, nearest first, the root last.
Parents(p) == [i \in 1..Len(p) |-> SubSeq(p, 1, Len(p) - i)]

\* p is q or an ancestor of q
IsPrefix(p, q) == Len(p) <= Len(q) /\ SubSeq(q, 1, Len(p)) = p

IsAncestor(p, q) == Len(p) < Len(q) /\ SubSeq(q, 1, Len(p)) = p

\* q, which lies under p, moved under d
Rebase(q, p, d) == d \o SubSeq(q, Len(p) + 1, Len(q))

InSeq(x, s) == \E i \in 1..Len(s) : s[i] = x

----------------------------------------------------------------------------
(* The filesystem calls the code makes.                                    *)

Exists(f, p) == p \in DOMAIN f

IsDir(f, p) == p \in DOMAIN f /\ f[p] = DIR

IsFile(f, p) == p \in DOMAIN f /\ f[p] # DIR

Restrict(f, D) == [q \in D |-> f[q]]

Children(f, p) == {q \in DOMAIN f : Len(q) = Len(p) + 1 /\ Parent(q) = p}

Ok(f) == [fs |-> f, err |-> ""]

Fail(f, e) == [fs |-> f, err |-> e]

\* The error of a call on a path that does not exist: ENOTDIR below a file,
\* ENOENT otherwise.
Missing(f, p) ==
    IF \E i \in 0..(Len(p) - 1) : IsFile(f, SubSeq(p, 1, i))
    THEN "NotADirectoryError"
    ELSE "FileNotFoundError"

\* Path.unlink / shutil.rmtree: the path and all beneath it are gone.
Remove(f, p) == Restrict(f, {q \in DOMAIN f : ~IsPrefix(p, q)})

\* shutil.rmtree(p)
RmTree(f, p) ==
    IF IsDir(f, p) THEN Ok(Remove(f, p)) ELSE Fail(f, Missing(f, p))

\* Path.rmdir(): only an empty directory can be removed.
RmDir(f, p) ==
    IF ~IsDir(f, p) THEN Fail(f, Missing(f, p))
    ELSE IF Children(f, p) # {} THEN Fail(f, "DirectoryNotEmpty")
    ELSE Ok(Remove(f, p))

\* Path.mkdir(parents=True) on a path that does not exist.
MkdirParents(f, p) ==
    IF \E i \in 0..Len(p) : IsFile(f, SubSeq(p, 1, i))
    THEN Fail(f, "NotADirectoryError")
    ELSE LET new == {SubSeq(p, 1, i) : i \in 0..Len(p)} \ DOMAIN f
         IN  Ok([q \in DOMAIN f \cup new |-> IF q \in DOMAIN f THEN f[q] ELSE DIR])

\* shutil.copy2(src, dst): into dst when dst is a directory; an existing file
\* is overwritten.
Copy2(f, src, dst) ==
    LET real == IF IsDir(f, dst) THEN Append(dst, Name(src)) ELSE dst
    IN  IF ~IsFile(f, src) THEN Fail(f, Missing(f, src))
        ELSE IF real = src THEN Fail(f, "SameFileError")
        ELSE IF IsDir(f, real) THEN Fail(f, "IsADirectoryError")
        ELSE IF ~IsDir(f, Parent(real)) THEN Fail(f, Missing(f, real))
        ELSE Ok([q \in DOMAIN f \cup {real} |-> IF q = real THEN f[src] ELSE f[q]])

\* The entries shutil.copytree(src, dst, ignore=callback) copies: the callback
\* drops, in every directory it visits, the names whose source path is in ign.
Copied(f, src, ign) ==
    {q \in DOMAIN f :
        /\ IsPrefix(src, q)
        /\ \A i \in (Len(src) + 1)..Len(q) : ~InSeq(SubSeq(q, 1, i), ign)}

\* shutil.copytree(src, dst): dst must not exist; it is made with its parents.
\* The entries of src are listed before dst is made, so a dst that is a new
\* child of src is not copied into itself. A dst deeper inside src is reached
\* by the walk while it is being written (unless the callback drops the way
\* there): the copy then runs until the interpreter's recursion limit, and the
\* model does not go there.
CopyTree(f, src, dst, ign) ==
    IF ~IsDir(f, src) THEN Fail(f, Missing(f, src))
    ELSE IF Exists(f, dst) THEN Fail(f, "FileExistsError")
    ELSE LET made == MkdirParents(f, dst)
             from == Copied(f, src, ign)
             to   == {Rebase(q, src, dst) : q \in from}
         IN  IF made.err # "" THEN made
             ELSE IF IsAncestor(src, Parent(dst)) /\ dst \in Copied(made.fs, src, ign)
                  THEN Fail(made.fs, "RecursionError")
             ELSE Ok([q \in DOMAIN made.fs \cup to |->
                        IF q \in to
                        THEN f[Rebase(q, dst, src)]
                        ELSE made.fs[q]])

\* shutil.move(src, dst): into dst when dst is a directory, never onto
\* something that exists there; then a rename.
MoveTo(f, src, dst) ==
    LET real == IF IsDir(f, dst) THEN Append(dst, Name(src)) ELSE dst
        from == {q \in DOMAIN f : IsPrefix(src, q)}
        to   == {Rebase(q, src, real) : q \in from}
        kept == DOMAIN f \ from
    IN  IF IsDir(f, dst) /\ Exists(f, real) THEN Fail(f, "DestinationExists")
        ELSE IF ~Exists(f, src) THEN Fail(f, Missing(f, src))
        ELSE IF IsDir(f, src) /\ IsPrefix(src, real) THEN Fail(f, "MoveIntoItself")
        ELSE IF ~IsDir(f, Parent(real)) THEN Fail(f, Missing(f, real))
        ELSE Ok([q \in kept \cup to |->
                    IF q \in to THEN f[Rebase(q, real, src)] ELSE f[q]])

\* Path.iterdir(): the entries of a directory, in the listing order.
RECURSIVE SortedSeq(_, _)
SortedSeq(S, r) ==
    IF S = {} THEN <<>>
    ELSE LET x == CHOOSE y \in S : \A z \in S :
                    IF r THEN NameRank(Name(y)) >= NameRank(Name(z))
                         ELSE NameRank(Name(y)) <= NameRank(Name(z))
         IN  <<x>> \o SortedSeq(S \ {x}, r)

IterDir(f, p, r) == SortedSeq(Children(f, p), r)

----------------------------------------------------------------------------
(* Action                                                                  *)

NOT_DEFINED == "Not defined"
IGNORE == "Ignore"
COPY == "Copy"
MOVE == "Move"
DELETE == "Delete"

SourceAction == {NOT_DEFINED, IGNORE, COPY, MOVE, DELETE}

\* Python's None, as the value of an argument or of a cell
None == "None"

\* Action.__init__ without the test for a missing target
InitRaisesTargetUnchecked(kind, target) ==
    IF kind \in {None, ""} THEN "ValueError"
    ELSE IF kind \notin SourceAction THEN "ValueError"
    ELSE ""

\* Action.__init__: the error it raises, "" when it returns. A falsy action,
\* a value SourceAction(...) does not know, and a Copy or Move without a
\* target are ValueErrors.
InitRaises(kind, target) ==
    IF kind \in {None, ""} THEN "ValueError"
    ELSE IF kind \notin SourceAction THEN "ValueError"
    ELSE IF kind \in {COPY, MOVE} /\ target = NoPath THEN "ValueError"
    ELSE ""

\* Action.__init__ with _target_is_file never set
NewActionNoSuffix(kind, source, target, priority) ==
    [action   |-> kind,
     source   |-> source,
     target   |-> target,
     priority |-> priority,
     tif      |-> FALSE,
     ign      |-> <<>>]

\* Action.__init__: _target_is_file is whether the target has a suffix, and
\* no sub folder is ignored yet.
NewAction(kind, source, target, priority) ==
    [action   |-> kind,
     source   |-> source,
     target   |-> target,
     priority |-> priority,
     tif      |-> IF target = NoPath THEN FALSE ELSE HasSuffix(Name(target)),
     ign      |-> <<>>]

\* Action.mark_target_as_file
MarkTargetAsFile(a) == [a EXCEPT !.tif = TRUE]

\* Action.ignore_sub_folder: an error on an action whose source is a file.
IgnoreSubFolderRaises(f, a) == IsFile(f, a.source)

IgnoreSubFolder(a, path) == [a EXCEPT !.ign = Append(@, path)]

\* Action._delete without its dry-run branch
DeleteAlways(a, f, d) ==
    IF IsFile(f, a.source) THEN Ok(Remove(f, a.source)) ELSE RmTree(f, a.source)

\* Action._delete with rmdir in the place of shutil.rmtree
DeleteWithRmdir(a, f, d) ==
    IF d THEN Ok(f)
    ELSE IF IsFile(f, a.source) THEN Ok(Remove(f, a.source))
    ELSE RmDir(f, a.source)

\* Action._delete
Delete(a, f, d) ==
    IF d THEN Ok(f)
    ELSE IF IsFile(f, a.source) THEN Ok(Remove(f, a.source))
    ELSE RmTree(f, a.source)

\* Action._copy: copy2 for a file and copytree otherwise, wrapped with the
\* ignore callback when sub folders are ignored.
CopyFunc(a, f) ==
    IF IsFile(f, a.source)
    THEN (IF a.ign # <<>> THEN "copy2+ignore" ELSE "copy2")
    ELSE "copytree"

\* func(...) with shutil.move leaving its source behind
CallKeepingSource(func, a, f) ==
    CASE func = "copy2"        -> Copy2(f, a.source, a.target)
      [] func = "copy2+ignore" -> Fail(f, "TypeError")
      [] func = "copytree"     -> CopyTree(f, a.source, a.target, a.ign)
      [] func = "move"         -> IF IsFile(f, a.source)
                                  THEN Copy2(f, a.source, a.target)
                                  ELSE CopyTree(f, a.source, a.target, <<>>)

\* func(str(self.source), str(self.target))
Call(func, a, f) ==
    CASE func = "copy2"        -> Copy2(f, a.source, a.target)
      [] func = "copy2+ignore" -> Fail(f, "TypeError")
      [] func = "copytree"     -> CopyTree(f, a.source, a.target, a.ign)
      [] func = "move"         -> MoveTo(f, a.source, a.target)

\* The last branch of Action._migrate without its dry-run branches
MigrateDirectAlways(a, func, f, d) ==
    LET parent == Parent(a.target)
        made   == IF Exists(f, parent) THEN Ok(f) ELSE MkdirParents(f, parent)
    IN  IF made.err # "" THEN made
        ELSE Call(func, a, made.fs)

\* Action._migrate, its last branch: make the target's parent, then call func.
MigrateDirect(a, func, f, d) ==
    LET parent == Parent(a.target)
        made   == IF Exists(f, parent) \/ d THEN Ok(f) ELSE MkdirParents(f, parent)
    IN  IF made.err # "" THEN made
        ELSE IF d THEN Ok(f)
        ELSE Call(func, a, made.fs)

\* The child action of _migrate_with_source_name, a file keeping the target
\* it was given
WithSourceNameFileAtTarget(a, f) ==
    IF IsFile(f, a.source)
    THEN MarkTargetAsFile(NewAction(a.action, a.source, a.target, a.priority))
    ELSE NewAction(a.action, a.source, Append(a.target, Name(a.source)), a.priority)

\* The child action Action._migrate_with_source_name performs.
WithSourceName(a, f) ==
    LET n == NewAction(a.action, a.source, Append(a.target, Name(a.source)), a.priority)
    IN  IF IsFile(f, a.source) THEN MarkTargetAsFile(n) ELSE n

\* The child action Action._migrate_elements performs for an entry.
ElementAction(a, entry, f) ==
    LET n == NewAction(a.action, entry, Append(a.target, Name(entry)), a.priority)
    IN  IF IsDir(f, entry) THEN [n EXCEPT !.ign = a.ign] ELSE n

\* The first test of _migrate made only for a file source
TargetTakenByFile(a, f) ==
    IsFile(f, a.source) /\ Exists(f, a.target) /\ ~IsDir(f, a.target)

\* The first test of _migrate: the target exists and is not a directory.
TargetTaken(a, f) == Exists(f, a.target) /\ ~IsDir(f, a.target)

RECURSIVE Perform(_, _, _, _)
RECURSIVE Migrate(_, _, _, _, _)
RECURSIVE MigrateElements(_, _, _, _, _)

\* Action._migrate_with_source_name
MigrateWithSourceName(a, f, d, r) == Perform(WithSourceName(a, f), f, d, r)

\* Action._migrate_elements, over the entries not yet visited
MigrateElements(a, entries, f, d, r) ==
    IF entries = <<>> THEN Ok(f)
    ELSE LET entry == Head(entries)
             done  == IF InSeq(entry, a.ign) THEN Ok(f)
                      ELSE Perform(ElementAction(a, entry, f), f, d, r)
         IN  IF done.err # "" THEN done
             ELSE MigrateElements(a, Tail(entries), done.fs, d, r)

\* Action._migrate
Migrate(a, func, f, d, r) ==
    IF TargetTaken(a, f) THEN Fail(f, "TargetExists")
    ELSE IF IsDir(f, a.source) /\ a.tif THEN Fail(f, "DirectoryToFile")
    ELSE IF IsDir(f, a.source) /\ IsDir(f, a.target)
    THEN IF Lower(Name(a.source)) = Lower(Name(a.target))
         THEN LET moved == MigrateElements(a, IterDir(f, a.source, r), f, d, r)
              IN  IF moved.err # "" THEN moved
                  ELSE IF a.action = MOVE /\ ~d THEN RmDir(moved.fs, a.source)
                  ELSE moved
         ELSE MigrateWithSourceName(a, f, d, r)
    ELSE IF IsFile(f, a.source) /\ ~a.tif THEN MigrateWithSourceName(a, f, d, r)
    ELSE MigrateDirect(a, func, f, d)

\* Action.perform taking Not defined for Ignore
PerformUndefinedAsIgnore(a, f, d, r) ==
    CASE a.action = DELETE      -> Delete(a, f, d)
      [] a.action = COPY        -> Migrate(a, CopyFunc(a, f), f, d, r)
      [] a.action = MOVE        -> Migrate(a, "move", f, d, r)
      [] a.action = IGNORE      -> Ok(f)
      [] a.action = NOT_DEFINED -> Ok(f)

\* Action.perform
Perform(a, f, d, r) ==
    CASE a.action = DELETE      -> Delete(a, f, d)
      [] a.action = COPY        -> Migrate(a, CopyFunc(a, f), f, d, r)
      [] a.action = MOVE        -> Migrate(a, "move", f, d, r)
      [] a.action = IGNORE      -> Ok(f)
      [] a.action = NOT_DEFINED -> Fail(f, "ValueError")

----------------------------------------------------------------------------
(* The resolver and the scheduler. A mapping (a dict keyed by source path)  *)
(* is the sequence of its actions in iteration order.                      *)

Has(m, p) == \E i \in 1..Len(m) : m[i].source = p

Get(m, p) == m[CHOOSE i \in 1..Len(m) : m[i].source = p]

\* dict.pop(path)
Pop(m, p) == SelectSeq(m, LAMBDA a : a.source # p)

\* m[a.source] = a: an existing key keeps its place, a new one goes last.
Put(m, a) ==
    IF Has(m, a.source)
    THEN [i \in 1..Len(m) |-> IF m[i].source = a.source THEN a ELSE m[i]]
    ELSE Append(m, a)

\* The places in action.source.parents the inner loop stops at: a parent that
\* is still a key of actions_modified and whose declared action is not Ignore.
Matching(actions, mod, a) ==
    {i \in 1..Len(a.source) :
        /\ Has(mod, Parents(a.source)[i])
        /\ Get(actions, Parents(a.source)[i]).action # IGNORE}

\* The body of the inner loop for the first matching parent.
Encapsulated(mod, a, parent, f) ==
    LET parent_action == Get(mod, parent)
        popped == IF parent_action.action = a.action THEN Pop(mod, a.source) ELSE mod
    IN  IF a.action # IGNORE THEN [res |-> popped, err |-> ""]
        ELSE IF parent_action.action = COPY
        THEN IF IgnoreSubFolderRaises(f, parent_action)
             THEN [res |-> popped, err |-> "ValueError"]
             ELSE [res |-> Pop(Put(popped, IgnoreSubFolder(parent_action, a.source)),
                               a.source),
                   err |-> ""]
        ELSE IF parent_action.action = MOVE
        THEN [res |-> Put(popped, NewAction(DELETE, a.source, NoPath, a.priority)),
              err |-> ""]
        ELSE [res |-> popped, err |-> ""]

\* One round of the outer loop.
ConvertOne(actions, mod, a, f) ==
    LET hits == Matching(actions, mod, a)
    IN  IF hits = {} THEN [res |-> mod, err |-> ""]
        ELSE LET first == CHOOSE i \in hits : \A j \in hits : i <= j
             IN  Encapsulated(mod, a, Parents(a.source)[first], f)

RECURSIVE ConvertFrom(_, _, _, _)
ConvertFrom(actions, mod, i, f) ==
    IF i > Len(actions) THEN [res |-> mod, err |-> ""]
    ELSE LET one == ConvertOne(actions, mod, actions[i], f)
         IN  IF one.err # "" THEN one
             ELSE ConvertFrom(actions, one.res, i + 1, f)

\* copy.copy in the place of copy.deepcopy: a new dict over the same Action
\* objects
ShallowCopy(actions) ==
    [dict |-> actions, shared |-> {actions[i].source : i \in 1..Len(actions)}]

\* copy.deepcopy(actions): a new dict, and the paths whose Action object in it
\* is the very object the given mapping holds (none: each Action is copied).
DeepCopy(actions) == [dict |-> actions, shared |-> {}]

\* _convert_encapsulated_actions
ConvertEncapsulatedActions(actions, f) ==
    ConvertFrom(actions, DeepCopy(actions).dict, 1, f)

\* The key of actions_modified whose Action object a round of the outer loop
\* changes in place with ignore_sub_folder; NoPath when it changes none.
Written(actions, mod, a, f) ==
    LET hits == Matching(actions, mod, a)
    IN  IF hits = {} \/ a.action # IGNORE THEN NoPath
        ELSE LET first  == CHOOSE i \in hits : \A j \in hits : i <= j
                 parent == Parents(a.source)[first]
             IN  IF Get(mod, parent).action = COPY
                    /\ ~IgnoreSubFolderRaises(f, Get(mod, parent))
                 THEN parent
                 ELSE NoPath

\* The paths still holding a shared object after a round: a key given a new
\* Action (line 248) holds a new object.
StillShared(shared, one, a) ==
    IF Has(one.res, a.source) /\ a.action = IGNORE
    THEN shared \ {a.source}
    ELSE shared

\* What the mapping given to the resolver holds as the loop goes on: its dict
\* is never written, and one of its Action objects changes when the loop
\* changes that very object through actions_modified.
RECURSIVE InputFrom(_, _, _, _, _, _)
InputFrom(actions, mod, i, f, shared, input) ==
    IF i > Len(actions) THEN input
    ELSE LET a   == actions[i]
             one == ConvertOne(actions, mod, a, f)
             w   == Written(actions, mod, a, f)
         IN  IF one.err # "" THEN input
             ELSE InputFrom(actions, one.res, i + 1, f,
                            StillShared(shared, one, a),
                            IF w \in shared
                            THEN Put(input, IgnoreSubFolder(Get(input, w), a.source))
                            ELSE input)

\* The mapping given to _convert_encapsulated_actions, after the call.
InputAfter(actions, f) ==
    InputFrom(actions, DeepCopy(actions).dict, 1, f, DeepCopy(actions).shared, actions)

\* sorted(...) without reverse=True: lowest priority first
RECURSIVE PrioritizeAscending(_)
PrioritizeAscending(m) ==
    IF m = <<>> THEN <<>>
    ELSE LET i == CHOOSE j \in 1..Len(m) :
                    /\ \A k \in 1..Len(m) : m[k].priority >= m[j].priority
                    /\ \A k \in 1..(j - 1) : m[k].priority > m[j].priority
         IN  <<m[i]>> \o PrioritizeAscending(SubSeq(m, 1, i - 1) \o SubSeq(m, i + 1, Len(m)))

\* _prioritize_actions: sorted(..., reverse=True) is stable.
RECURSIVE PrioritizeActions(_)
PrioritizeActions(m) ==
    IF m = <<>> THEN <<>>
    ELSE LET i == CHOOSE j \in 1..Len(m) :
                    /\ \A k \in 1..Len(m) : m[k].priority <= m[j].priority
                    /\ \A k \in 1..(j - 1) : m[k].priority < m[j].priority
         IN  <<m[i]>> \o PrioritizeActions(SubSeq(m, 1, i - 1) \o SubSeq(m, i + 1, Len(m)))

----------------------------------------------------------------------------
(* perform_actions, step by step.                                          *)

\* actions = _convert_encapsulated_actions(actions)
Resolve ==
    /\ pc = "start"
    /\ LET r == ConvertEncapsulatedActions(decls, fs)
       IN  /\ resolved' = r.res
           /\ err' = r.err
           /\ pc' = IF r.err = "" THEN "resolved" ELSE "failed"
    /\ decls' = InputAfter(decls, fs)
    /\ UNCHANGED <<fs, fs0, again, queue, log, dry, rev, reading>>

\* actions = _prioritize_actions(actions)
Prioritize ==
    /\ pc = "resolved"
    /\ queue' = PrioritizeActions(resolved)
    /\ pc' = "run"
    /\ UNCHANGED <<fs, fs0, decls, resolved, again, log, err, dry, rev, reading>>

\* The loop of perform_actions over a sequence of actions: the filesystem it
\* leaves and the error that ended it, if any.
RECURSIVE PerformAll(_, _, _, _)
PerformAll(actions, f, d, r) ==
    IF actions = <<>> THEN Ok(f)
    ELSE LET one == Perform(Head(actions), f, d, r)
         IN  IF one.err # "" THEN one
             ELSE PerformAll(Tail(actions), one.fs, d, r)

\* A round of the loop that undoes everything when the action fails
PerformNextRollingBack ==
    /\ pc = "run"
    /\ queue # <<>>
    /\ LET r == Perform(Head(queue), fs, dry, rev)
       IN  /\ fs' = IF r.err = "" THEN r.fs ELSE fs0
           /\ err' = r.err
           /\ pc' = IF r.err = "" THEN "run" ELSE "failed"
    /\ log' = Append(log, Head(queue))
    /\ queue' = Tail(queue)
    /\ UNCHANGED <<fs0, decls, resolved, again, dry, rev, reading>>

\* One round of "for action in actions: action.perform(dry_run=dry_run)".
PerformNext ==
    /\ pc = "run"
    /\ queue # <<>>
    /\ LET r == Perform(Head(queue), fs, dry, rev)
       IN  /\ fs' = r.fs
           /\ err' = r.err
           /\ pc' = IF r.err = "" THEN "run" ELSE "failed"
    /\ log' = Append(log, Head(queue))
    /\ queue' = Tail(queue)
    /\ UNCHANGED <<fs0, decls, resolved, again, dry, rev, reading>>

\* The loop is over: perform_actions returns.
Finish ==
    /\ pc = "run"
    /\ queue = <<>>
    /\ pc' = "done"
    /\ UNCHANGED <<fs, fs0, decls, resolved, again, queue, log, err, dry, rev, reading>>

\* The resolver applied to the mapping it returned.
ResolveAgain ==
    /\ pc = "resolved"
    /\ LET r == ConvertEncapsulatedActions(resolved, fs)
       IN  /\ again' = r.res
           /\ err' = r.err
           /\ pc' = IF r.err = "" THEN "again" ELSE "failed"
    /\ resolved' = InputAfter(resolved, fs)
    /\ UNCHANGED <<fs, fs0, decls, queue, log, dry, rev, reading>>

\* Action.perform called on one action, outside perform_actions.
PerformAction ==
    /\ pc = "action"
    /\ LET r == Perform(decls[1], fs, dry, rev)
       IN  /\ fs' = r.fs
           /\ err' = r.err
           /\ pc' = IF r.err = "" THEN "done" ELSE "failed"
    /\ log' = Append(log, decls[1])
    /\ UNCHANGED <<fs0, decls, resolved, again, queue, dry, rev, reading>>

----------------------------------------------------------------------------
(* The inputs.                                                             *)

\* The longest mapping given to perform_actions.
MaxDecls == 2

\* The longest mapping given to the resolver alone.
MaxMapping == 3

Root == (<<>> :> DIR)

\* The source side: /s/a holds a file without a suffix (o), a file with one
\* (e.x), a directory (k) with an entry (m), and a directory whose name has a
\* suffix (d.x); every choice of them is a source tree.
SourceTrees ==
    {Root @@ (<<"s">> :> DIR) @@ (<<"s", "a">> :> DIR) @@ o @@ e @@ k @@ d :
        o \in {<<>>, <<"s", "a", "o">> :> "X"},
        e \in {<<>>, <<"s", "a", "e.x">> :> "Y"},
        d \in {<<>>, <<"s", "a", "d.x">> :> DIR},
        k \in {<<>>,
               <<"s", "a", "k">> :> DIR,
               (<<"s", "a", "k">> :> DIR) @@ (<<"s", "a", "k", "m">> :> DIR),
               (<<"s", "a", "k">> :> DIR) @@ (<<"s", "a", "k", "m">> :> "Z")}}

\* The target side, around one target path: what is there before the run.
TargetTrees(t) ==
    CASE t = <<"t", "A">> ->
            {<<>>, <<"t", "A">> :> "W"}
            \cup {(<<"t", "A">> :> DIR) @@ k @@ e :
                    k \in {<<>>, <<"t", "A", "k">> :> DIR},
                    e \in {<<>>, <<"t", "A", "e.x">> :> "W"}}
      [] t = <<"t", "b">> ->
            {<<>>,
             <<"t", "b">> :> DIR,
             (<<"t", "b">> :> DIR) @@ (<<"t", "b", "a">> :> DIR),
             (<<"t", "b">> :> DIR) @@ (<<"t", "b", "a">> :> "W")}
      [] t = <<"t", "e.x">> ->
            {<<>>, <<"t", "e.x">> :> "W", <<"t", "e.x">> :> DIR}
      [] OTHER -> {<<>>}

\* The targets of a single action: a directory named like the source /s/a up
\* to case, one named differently, a name with a suffix, two paths whose
\* parent is missing, and a new entry of the source directory itself.
ActionTargets ==
    {<<"t", "A">>, <<"t", "b">>, <<"t", "e.x">>,
     <<"t", "n", "e.x">>, <<"t", "n", "b">>, <<"s", "a", "n">>}

ActionSources ==
    {<<"s", "a">>, <<"s", "a", "o">>, <<"s", "a", "e.x">>, <<"s", "a", "k">>}

\* The sub folders a test registers with ignore_sub_folder before perform.
Ignorable(src) ==
    IF src = <<"s", "a">>
    THEN {<<>>, <<<<"s", "a", "k">>>>, <<<<"s", "a", "k", "m">>>>, <<<<"s", "a", "o">>>>}
    ELSE {<<>>}

\* Action(kind, source, target, priority), for every kind.
ActionsOn(src, targets, priorities) ==
    {NewAction(kind, src, t, n) :
        kind \in {COPY, MOVE}, t \in targets, n \in priorities}
    \cup {NewAction(kind, src, NoPath, n) :
            kind \in {DELETE, IGNORE, NOT_DEFINED}, n \in priorities}

SingleActions ==
    UNION {{[a EXCEPT !.ign = g] : a \in ActionsOn(src, ActionTargets, {Len(src)}),
                                   g \in Ignorable(src)} :
           src \in ActionSources}

\* sheet_to_actions gives an action the depth of its path as priority; the
\* tests also give priorities by hand.
Priority(scheme, path) == IF scheme = "depth" THEN Len(path) ELSE 0

\* The mappings over the given paths, of the given length, in every order
\* (a key occurs once).
Mappings(paths, targets, scheme, n) ==
    LET options == UNION {ActionsOn(q, targets, {Priority(scheme, q)}) : q \in paths}
    IN  {m \in [1..n -> options] :
            \A i, j \in 1..n : m[i].source = m[j].source => i = j}

DeclPaths == {<<"s", "a">>, <<"s", "a", "k">>, <<"s", "a", "k", "m">>}

DeclTargets == {<<"t", "A">>, <<"t", "b">>}

\* The trees perform_actions runs on: the source side complete, with or
\* without the directory whose name has a suffix, and each target there as an
\* empty directory or not there.
RunTrees ==
    {src @@ (<<"t">> :> DIR) @@ ta @@ tb :
        src \in {x \in SourceTrees :
                    /\ <<"s", "a", "o">> \in DOMAIN x
                    /\ <<"s", "a", "e.x">> \in DOMAIN x
                    /\ <<"s", "a", "k", "m">> \in DOMAIN x},
        ta \in {<<>>, <<"t", "A">> :> DIR},
        tb \in {<<>>, <<"t", "b">> :> DIR}}

ChainPaths ==
    {<<"s">>, <<"s", "a">>, <<"s", "a", "k">>, <<"s", "a", "k", "m">>}

\* The trees the resolver alone runs on (it asks only whether the source of
\* a Copy is a file).
ResolveTrees ==
    {Root @@ (<<"s">> :> DIR) @@ (<<"s", "a">> :> DIR) @@ k :
        k \in {(<<"s", "a", "k">> :> DIR) @@ (<<"s", "a", "k", "m">> :> DIR),
               <<"s", "a", "k">> :> "X"}}

Start(f, m, d, r, at) ==
    /\ fs = f
    /\ fs0 = f
    /\ decls = m
    /\ resolved = <<>>
    /\ again = <<>>
    /\ queue = <<>>
    /\ log = <<>>
    /\ pc = at
    /\ err = ""
    /\ dry = d
    /\ rev = r
    /\ args = <<>>
    /\ sheet = <<>>
    /\ row = 0
    /\ rowPaths = <<>>
    /\ checked = 0
    /\ warnings = <<>>

\* perform_actions / dry_run_actions on a mapping
Init ==
    \E f \in RunTrees, scheme \in {"depth", "flat"}, n \in 1..MaxDecls,
       d \in BOOLEAN, r \in BOOLEAN :
        \E m \in Mappings(DeclPaths, DeclTargets, scheme, n) :
            Start(f, m, d, r, "start")

Next == Resolve \/ Prioritize \/ PerformNext \/ Finish

Spec == Init /\ [][Next]_vars

\* Action.perform on one action
InitAction ==
    \E a \in SingleActions, src \in SourceTrees, d \in BOOLEAN, r \in BOOLEAN :
        \E tgt \in TargetTrees(a.target) :
            Start(src @@ (<<"t">> :> DIR) @@ tgt, <<a>>, d, r, "action")

NextAction == PerformAction

SpecAction == InitAction /\ [][NextAction]_vars

\* _convert_encapsulated_actions on a mapping, and again on its result
InitResolve ==
    \E f \in ResolveTrees, n \in 1..MaxMapping :
        \E m \in Mappings(ChainPaths, DeclTargets, "depth", n) :
            Start(f, m, FALSE, FALSE, "start")

NextResolve == Resolve \/ ResolveAgain

SpecResolve == InitResolve /\ [][NextResolve]_vars

----------------------------------------------------------------------------
(* Action(action, source, target, priority), the constructor on its own.   *)

\* The values given as action: None, the empty string, a string that names
\* no SourceAction, and the five that do.
KindArguments == {None, "", "Bogus"} \cup SourceAction

\* The call Action(action, source, target, priority)
Construct ==
    /\ pc = "new"
    /\ LET e == InitRaises(args.action, args.target)
       IN  /\ err' = e
           /\ pc' = IF e = "" THEN "made" ELSE "failed"
           /\ decls' = IF e = ""
                       THEN <<NewAction(args.action, args.source, args.target,
                                        args.priority)>>
                       ELSE <<>>
    /\ UNCHANGED <<fs, fs0, resolved, again, queue, log, dry, rev, reading>>

InitNew ==
    \E kind \in KindArguments, src \in ActionSources,
       t \in ActionTargets \cup {NoPath}, n \in 0..3 :
        /\ args = [action |-> kind, source |-> src, target |-> t, priority |-> n]
        /\ fs = Root /\ fs0 = Root
        /\ decls = <<>> /\ resolved = <<>> /\ again = <<>>
        /\ queue = <<>> /\ log = <<>>
        /\ pc = "new" /\ err = ""
        /\ dry = FALSE /\ rev = FALSE
        /\ sheet = <<>> /\ row = 0
        /\ rowPaths = <<>> /\ checked = 0 /\ warnings = <<>>

NextNew == Construct

SpecNew == InitNew /\ [][NextNew]_vars

----------------------------------------------------------------------------
(* sheet_to_actions. A row is what line 197-200 makes of its cells: the    *)
(* path, the action cell (None when empty) and the target (NoPath when the *)
(* cell is empty).                                                         *)

\* The most rows a sheet has.
MaxRows == 3

\* Only the nearest parent looked at
HasDirectParentAction(actions, path) == Has(actions, Parent(path))

\* any(p in actions for p in path.parents)
HasParentAction(actions, path) ==
    \E i \in 1..Len(path) : Has(actions, Parents(path)[i])

\* One round of "for row in iter_"
ReadRow ==
    /\ pc = "rows"
    /\ row < Len(sheet)
    /\ row' = row + 1
    /\ LET r == sheet[row + 1]
           e == IF r.target # NoPath /\ r.action \in {None, ""}
                THEN "ValueError"
                ELSE IF r.action \in {None, ""} THEN ""
                ELSE InitRaises(r.action, r.target)
       IN  /\ err' = e
           /\ pc' = IF e = "" THEN "rows" ELSE "failed"
           /\ decls' = IF e = "" /\ r.action \notin {None, ""}
                       THEN Put(decls, NewAction(r.action, r.path, r.target, Len(r.path)))
                       ELSE decls
           /\ rowPaths' = IF e = "" /\ r.action \in {None, ""}
                          THEN Append(rowPaths, r.path)
                          ELSE rowPaths
    /\ UNCHANGED <<fs, fs0, resolved, again, queue, log, dry, rev,
                   args, sheet, checked, warnings>>

\* One round of "for path in paths"
CheckPath ==
    /\ pc = "rows"
    /\ row = Len(sheet)
    /\ checked < Len(rowPaths)
    /\ checked' = checked + 1
    /\ warnings' = IF HasParentAction(decls, rowPaths[checked + 1])
                   THEN warnings
                   ELSE Append(warnings, rowPaths[checked + 1])
    /\ UNCHANGED <<fs, fs0, decls, resolved, again, queue, log, pc, err, dry, rev,
                   args, sheet, row, rowPaths>>

\* return actions
ReturnActions ==
    /\ pc = "rows"
    /\ row = Len(sheet)
    /\ checked = Len(rowPaths)
    /\ pc' = "returned"
    /\ UNCHANGED <<fs, fs0, decls, resolved, again, queue, log, err, dry, rev, reading>>

SheetPaths == {<<"s">>, <<"s", "a">>, <<"s", "a", "k">>}

Rows ==
    [path : SheetPaths, action : {None, COPY, IGNORE}, target : {NoPath, <<"t", "b">>}]

InitSheet ==
    \E n \in 1..MaxRows :
        \E rows \in [1..n -> Rows] :
            /\ sheet = rows
            /\ row = 0 /\ rowPaths = <<>> /\ checked = 0 /\ warnings = <<>>
            /\ args = <<>>
            /\ fs = Root /\ fs0 = Root
            /\ decls = <<>> /\ resolved = <<>> /\ again = <<>>
            /\ queue = <<>> /\ log = <<>>
            /\ pc = "rows" /\ err = ""
            /\ dry = FALSE /\ rev = FALSE

NextSheet == ReadRow \/ CheckPath \/ ReturnActions

SpecSheet == InitSheet /\ [][NextSheet]_vars

----------------------------------------------------------------------------
(* Properties                                                              *)

\* The run has handed its actions to the scheduler.
Scheduled == pc \in {"run", "done"} \/ (pc = "failed" /\ log # <<>>)

\* The order perform_actions works in: what it performed, then what is left.
Order == log \o queue

\* Every declaration has the depth of its path as priority.
DepthPriorities == \A i \in 1..Len(decls) : decls[i].priority = Len(decls[i].source)

\* The Delete actions the resolver made out of a declared Ignore.
Synthesized(a) ==
    /\ a.action = DELETE
    /\ Has(decls, a.source)
    /\ Get(decls, a.source).action = IGNORE

\* C4: perform_actions performs the resolved actions, all of them when it
\* returns, in non-increasing priority order; with the depth of the path as
\* priority an action on a strict descendant is performed before the action
\* on its ancestor, and a Delete made out of an Ignore under a Move keeps the
\* declared priority.
C4_PriorityOrder ==
    Scheduled =>
        /\ \A i, j \in 1..Len(Order) :
              i < j => Order[i].priority >= Order[j].priority
        /\ Len(Order) = Len(resolved)
        /\ \A i \in 1..Len(resolved) : InSeq(resolved[i], Order)
        /\ pc = "done" => (queue = <<>> /\ Len(log) = Len(resolved))
        /\ \A i \in 1..Len(Order) :
              Synthesized(Order[i]) =>
                  Order[i].priority = Get(decls, Order[i].source).priority
        /\ DepthPriorities =>
              \A i, j \in 1..Len(Order) :
                  IsAncestor(Order[i].source, Order[j].source) => j < i

\* A returned run in which a Delete made out of an Ignore was performed before
\* the Move above it.
C4_Witness ==
    /\ pc = "done"
    /\ ~dry
    /\ \E i, j \in 1..Len(log) :
          /\ i < j
          /\ Synthesized(log[i])
          /\ log[j].action = MOVE
          /\ IsAncestor(log[j].source, log[i].source)

\* C5: in a dry run the filesystem stays what it was before the run, at every
\* step, whether the run returns or raises.
C5_DryRunWritesNothing == dry => fs = fs0

\* A dry run that returned after a Move into an existing directory of the
\* same name (the merge, with its rmdir) and a Delete.
C5_Witness ==
    /\ dry
    /\ pc = "done"
    /\ \E i \in 1..Len(log) :
          /\ log[i].action = MOVE
          /\ IsDir(fs, log[i].source)
          /\ IsDir(fs, log[i].target)
          /\ Lower(Name(log[i].source)) = Lower(Name(log[i].target))
    /\ \E i \in 1..Len(log) : log[i].action = DELETE

\* The places above p (in Parents(p)) that hold a declared action other than
\* Ignore, and the nearest of them.
DeclaredAbove(p) ==
    {i \in 1..Len(p) :
        /\ Has(decls, Parents(p)[i])
        /\ Get(decls, Parents(p)[i]).action # IGNORE}

NearestDeclared(p) ==
    Get(decls, Parents(p)[CHOOSE i \in DeclaredAbove(p) :
                            \A j \in DeclaredAbove(p) : i <= j])

\* p is declared Ignore and the nearest declared ancestor that is not Ignore
\* is the action a, of the given kind, on a directory.
IgnoredUnder(p, a, kind) ==
    /\ Has(decls, p)
    /\ Get(decls, p).action = IGNORE
    /\ Exists(fs0, p)
    /\ DeclaredAbove(p) # {}
    /\ NearestDeclared(p) = a
    /\ a.action = kind
    /\ IsDir(fs0, a.source)

\* Where the directory a.source goes: the target itself when it is new or has
\* the name of the source, and target/source.name otherwise.
Destination(a) ==
    IF IsDir(fs0, a.target) /\ Lower(Name(a.source)) # Lower(Name(a.target))
    THEN Append(a.target, Name(a.source))
    ELSE a.target

\* q, an entry under a.source, is at the destination as it was at the source.
Arrived(q, a) ==
    LET to == Rebase(q, a.source, Destination(a))
    IN  to \in DOMAIN fs /\ fs[to] = fs0[q]

\* The declared paths: SourcePaths(decls)
Declared == {decls[i].source : i \in 1..Len(decls)}

\* C1: after a run that completed, a path declared Ignore whose nearest
\* declared non-Ignore ancestor is a Copy of a directory is not at the
\* destination of that copy, and every child of the directory that is not
\* ignored is there.
C1_IgnoreUnderCopy ==
    (pc = "done" /\ ~dry) =>
        \A p \in Declared : \A i \in 1..Len(decls) :
            IgnoredUnder(p, decls[i], COPY) =>
                /\ ~Exists(fs, Rebase(p, decls[i].source, Destination(decls[i])))
                /\ \A c \in Children(fs0, decls[i].source) :
                      ~(Has(decls, c) /\ Get(decls, c).action = IGNORE)
                          => Exists(fs, Rebase(c, decls[i].source, Destination(decls[i])))

\* C2: after a run that completed, a path declared Ignore whose nearest
\* declared non-Ignore ancestor is a Move of a directory exists neither at the
\* source nor at the destination, the directory is gone from the source, and
\* all its other content is at the destination.
C2_IgnoreUnderMove ==
    (pc = "done" /\ ~dry) =>
        \A p \in Declared : \A i \in 1..Len(decls) :
            IgnoredUnder(p, decls[i], MOVE) =>
                /\ ~Exists(fs, p)
                /\ ~Exists(fs, Rebase(p, decls[i].source, Destination(decls[i])))
                /\ ~Exists(fs, decls[i].source)
                /\ \A q \in DOMAIN fs0 :
                      (/\ IsAncestor(decls[i].source, q)
                       /\ \A x \in Declared :
                             IgnoredUnder(x, decls[i], MOVE) => ~IsPrefix(x, q))
                          => Arrived(q, decls[i])

\* C3: the resolver applied to its own result returns that result: the same
\* paths in the same places, each with its kind, target, priority and
\* excluded descendants.
C3_ResolverIdempotent == pc = "again" => again = resolved

----------------------------------------------------------------------------
(* Properties of one Action.perform                                        *)

\* The action performed, and that perform returned after a real run.
TheAction == decls[1]

Returned == pc = "done" /\ ~dry /\ log = <<TheAction>>

Migrates == TheAction.action \in {COPY, MOVE}

SameName(a) == Lower(Name(a.source)) = Lower(Name(a.target))

\* Everything at or under p is what it was before the run.
Untouched(p) ==
    \A q \in DOMAIN fs0 \cup DOMAIN fs :
        IsPrefix(p, q) => (q \in DOMAIN fs0 /\ q \in DOMAIN fs /\ fs[q] = fs0[q])

\* Neither path is inside the other.
Disjoint(p, q) == ~IsPrefix(p, q) /\ ~IsPrefix(q, p)

\* C6: a directory copied or moved to an existing directory of the same name
\* (up to case) has every direct child that is not excluded, and that met
\* nothing at the target, at target/child.name with its type; to an existing
\* directory of another name, all its content is under target/source.name.
C6_DirectoryIntoExisting ==
    (Returned /\ Migrates /\ IsDir(fs0, TheAction.source) /\ IsDir(fs0, TheAction.target)) =>
        IF SameName(TheAction)
        THEN \A c \in Children(fs0, TheAction.source) :
                LET to == Append(TheAction.target, Name(c))
                IN  (~InSeq(c, TheAction.ign) /\ ~Exists(fs0, to)) =>
                        /\ Exists(fs, to)
                        /\ IsDir(fs, to) <=> IsDir(fs0, c)
        ELSE \A q \in DOMAIN fs0 :
                IsPrefix(TheAction.source, q) =>
                    LET to == Rebase(q, TheAction.source,
                                     Append(TheAction.target, Name(TheAction.source)))
                    IN  to \in DOMAIN fs /\ fs[to] = fs0[q]

\* C7: a Copy of a directory with a descendant registered by
\* ignore_sub_folder leaves no copy of that descendant at the destination
\* (where nothing was before), and the ancestors of the descendant are there.
C7_ExclusionHonoured ==
    (Returned /\ TheAction.action = COPY /\ IsDir(fs0, TheAction.source)) =>
        \A i \in 1..Len(TheAction.ign) :
            LET p  == TheAction.ign[i]
                to == Rebase(p, TheAction.source, Destination(TheAction))
            IN  (IsAncestor(TheAction.source, p) /\ Exists(fs0, p) /\ ~Exists(fs0, to)) =>
                    /\ ~Exists(fs, to)
                    /\ Exists(fs, Parent(to))

\* C8 as stated: a file copied or moved to a path that did not exist is a
\* file with that content at that path.
C8_FileAtTarget ==
    (Returned /\ Migrates /\ IsFile(fs0, TheAction.source) /\ ~Exists(fs0, TheAction.target)) =>
        /\ IsFile(fs, TheAction.target)
        /\ fs[TheAction.target] = fs0[TheAction.source]

\* C8, amended: the file is at the target when the target's name has a
\* suffix; otherwise the target is a directory and the file is in it under
\* its own name.
C8_FileToNewPath ==
    (Returned /\ Migrates /\ IsFile(fs0, TheAction.source) /\ ~Exists(fs0, TheAction.target)) =>
        LET to == IF HasSuffix(Name(TheAction.target))
                  THEN TheAction.target
                  ELSE Append(TheAction.target, Name(TheAction.source))
        IN  /\ IsFile(fs, to)
            /\ fs[to] = fs0[TheAction.source]
            /\ to # TheAction.target => IsDir(fs, TheAction.target)

\* A file without a suffix moved to a new path without a suffix whose parent
\* was missing, and a file copied to a new path with a suffix.
C8_Witness ==
    /\ Returned
    /\ IsFile(fs0, TheAction.source)
    /\ ~Exists(fs0, TheAction.target)
    /\ \/ /\ TheAction.action = MOVE
          /\ ~HasSuffix(Name(TheAction.source))
          /\ ~HasSuffix(Name(TheAction.target))
          /\ ~Exists(fs0, Parent(TheAction.target))
       \/ /\ TheAction.action = COPY
          /\ HasSuffix(Name(TheAction.target))

\* C9 as stated: a Copy leaves the source and all beneath it as it was, and
\* after a Move the source is gone.
C9_SourceAfter ==
    (Returned /\ Migrates) =>
        /\ TheAction.action = COPY => Untouched(TheAction.source)
        /\ TheAction.action = MOVE => ~Exists(fs, TheAction.source)

\* C9, amended: the same, for a Copy whose target is neither inside the
\* source nor above it.
C9_SourceEffect ==
    (Returned /\ Migrates) =>
        /\ (TheAction.action = COPY /\ Disjoint(TheAction.source, TheAction.target))
              => Untouched(TheAction.source)
        /\ TheAction.action = MOVE => ~Exists(fs, TheAction.source)

\* A directory moved entry by entry into an existing directory of its name,
\* and a directory copied the same way.
C9_Witness ==
    /\ Returned
    /\ Migrates
    /\ IsDir(fs0, TheAction.source)
    /\ IsDir(fs0, TheAction.target)
    /\ SameName(TheAction)
    /\ Disjoint(TheAction.source, TheAction.target)
    /\ Children(fs0, TheAction.source) # {}
    /\ fs # fs0

\* C10: a Copy or Move whose target exists and is not a directory fails with
\* TargetExists and changes nothing.
C10_TargetExists ==
    (pc \in {"done", "failed"} /\ log = <<TheAction>> /\ Migrates
        /\ Exists(fs0, TheAction.target) /\ ~IsDir(fs0, TheAction.target)) =>
        /\ pc = "failed"
        /\ err = "TargetExists"
        /\ fs = fs0

\* A real Move of a directory onto an existing file has failed.
C10_Witness ==
    /\ pc = "failed"
    /\ ~dry
    /\ log = <<TheAction>>
    /\ TheAction.action = MOVE
    /\ IsDir(fs0, TheAction.source)
    /\ IsFile(fs0, TheAction.target)

----------------------------------------------------------------------------
(* Properties of perform_actions as a whole                                *)

\* perform_actions raised while performing the last action of log.
Aborted == pc = "failed" /\ log # <<>>

\* C11: when the k-th action raises, the error is the caller's, the actions
\* after k are still waiting, and the filesystem is the one actions 1..k-1
\* and the part of action k that ran have left.
C11_AbortWithoutRollback ==
    Aborted =>
        LET k      == Len(log)
            before == PerformAll(SubSeq(log, 1, k - 1), fs0, dry, rev)
            last   == Perform(log[k], before.fs, dry, rev)
        IN  /\ err # ""
            /\ log \o queue = PrioritizeActions(resolved)
            /\ before.err = ""
            /\ last.err = err
            /\ fs = last.fs

\* The first action failed half way through a merge: what it had moved stays
\* moved, and the second action is not performed.
C11_Witness ==
    /\ Aborted
    /\ ~dry
    /\ Len(log) = 1
    /\ queue # <<>>
    /\ fs # fs0

----------------------------------------------------------------------------
(* More properties of one Action.perform                                   *)

\* perform was called on the action and has returned or raised.
Performed == pc \in {"done", "failed"} /\ log = <<TheAction>>

\* C12: a real Delete of an existing file or directory succeeds, removes the
\* path with everything beneath it, and leaves every other path, the parent
\* and the siblings among them, as it was.
C12_DeleteRemovesSubtree ==
    (Performed /\ ~dry /\ TheAction.action = DELETE /\ Exists(fs0, TheAction.source)) =>
        /\ pc = "done"
        /\ \A q \in DOMAIN fs0 \cup DOMAIN fs :
              IF IsPrefix(TheAction.source, q)
              THEN q \notin DOMAIN fs
              ELSE q \in DOMAIN fs0 /\ q \in DOMAIN fs /\ fs[q] = fs0[q]

\* A directory with an entry, next to a sibling file, has been deleted.
C12_Witness ==
    /\ Returned
    /\ TheAction.action = DELETE
    /\ IsDir(fs0, TheAction.source)
    /\ Children(fs0, TheAction.source) # {}
    /\ \E q \in Children(fs0, Parent(TheAction.source)) :
          q # TheAction.source /\ IsFile(fs, q)
    /\ ~Exists(fs, TheAction.source)

\* The errors Action._migrate raises itself, before it mutates anything.
CheckErrors == {"TargetExists", "DirectoryToFile"}

\* C13 as stated: a dry run of a Copy, Move or Delete never raises, whatever
\* the filesystem holds.
C13_DryRunNeverRaises ==
    (Performed /\ dry /\ TheAction.action \in {COPY, MOVE, DELETE}) => pc = "done"

\* C13, amended: a dry run of a Copy, Move or Delete raises no error of a
\* filesystem call; it raises only what the checks at the head of _migrate
\* raise, and a Delete raises nothing.
C13_DryRunRaisesOnlyChecks ==
    (Performed /\ dry /\ TheAction.action \in {COPY, MOVE, DELETE}) =>
        /\ err \in CheckErrors \cup {""}
        /\ pc = "failed" => (err # "" /\ Migrates)
        /\ TheAction.action = DELETE => pc = "done"

\* The dry run of a Move whose source does not exist has returned: the real
\* move would have raised.
C13_Witness ==
    /\ pc = "done"
    /\ dry
    /\ log = <<TheAction>>
    /\ TheAction.action = MOVE
    /\ ~Exists(fs0, TheAction.source)
    /\ Perform(TheAction, fs0, FALSE, rev).err \notin CheckErrors \cup {""}

----------------------------------------------------------------------------
(* More properties of perform_actions                                      *)

Undefined == {i \in 1..Len(decls) : decls[i].action = NOT_DEFINED}

\* C14: performing a Not defined action raises, in a real run and in a dry
\* run, and perform_actions on declarations with a Not defined one among
\* them never returns.
C14_NotDefinedRaises ==
    /\ (log # <<>> /\ log[Len(log)].action = NOT_DEFINED) =>
            (pc = "failed" /\ err = "ValueError")
    /\ Undefined # {} => pc # "done"

\* A dry run stopped at a Not defined action after the resolver had dropped
\* another one declared beneath it.
C14_Witness ==
    /\ Aborted
    /\ dry
    /\ err = "ValueError"
    /\ log[Len(log)].action = NOT_DEFINED
    /\ Cardinality(Undefined) = 2
    /\ Len(resolved) < Len(decls)

----------------------------------------------------------------------------
(* Properties of the constructor                                           *)

Constructed == pc \in {"made", "failed"} /\ args # <<>>

\* C15: constructing an Action fails, and gives no Action, when the kind is
\* empty or unset, when it is none of the five kinds, and when it is Copy or
\* Move without a target; it succeeds for Delete, Ignore and Not defined
\* without a target, and for every kind given with a target.
C15_Construction ==
    Constructed =>
        /\ args.action \in {None, ""} => pc = "failed"
        /\ args.action \notin SourceAction => pc = "failed"
        /\ (args.action \in {COPY, MOVE} /\ args.target = NoPath) => pc = "failed"
        /\ args.action \in {DELETE, IGNORE, NOT_DEFINED} => pc = "made"
        /\ (args.action \in {COPY, MOVE} /\ args.target # NoPath) => pc = "made"
        /\ pc = "failed" => (decls = <<>> /\ err = "ValueError")
        /\ pc = "made" =>
              /\ Len(decls) = 1
              /\ decls[1].action = args.action
              /\ decls[1].source = args.source
              /\ decls[1].target = args.target
              /\ decls[1].priority = args.priority

\* Action(Move, source) without a target has raised.
C15_Witness ==
    /\ pc = "failed"
    /\ args # <<>>
    /\ args.action = MOVE
    /\ args.target = NoPath
    /\ decls = <<>>

----------------------------------------------------------------------------
(* Properties of sheet_to_actions                                          *)

\* The rows with an action, and those without.
WithAction == {i \in 1..Len(sheet) : sheet[i].action \notin {None, ""}}

WithoutAction == {i \in 1..Len(sheet) : sheet[i].action \in {None, ""}}

\* Some row of the sheet declares an action on an ancestor of p.
AncestorDeclared(p) == \E i \in WithAction : IsAncestor(sheet[i].path, p)

Warned(p) == {i \in 1..Len(warnings) : warnings[i] = p}

\* C16: sheet_to_actions returns the mapping of the declared actions and has
\* warned once for each row without an action whose path has no ancestor
\* with an action anywhere in the sheet, and for no other row.
C16_UnaddressedWarnings ==
    pc = "returned" =>
        /\ \A p \in SheetPaths :
              Cardinality(Warned(p)) =
                 IF AncestorDeclared(p) THEN 0
                 ELSE Cardinality({i \in WithoutAction : sheet[i].path = p})
        /\ Len(warnings) <= Cardinality(WithoutAction)
        /\ {decls[i].source : i \in 1..Len(decls)} = {sheet[i].path : i \in WithAction}
        /\ \A i \in WithAction :
              (\A j \in WithAction : (j > i) => sheet[j].path # sheet[i].path) =>
                  /\ Get(decls, sheet[i].path).action = sheet[i].action
                  /\ Get(decls, sheet[i].path).target = sheet[i].target
                  /\ Get(decls, sheet[i].path).priority = Len(sheet[i].path)

\* A sheet whose first row has no action and no declared ancestor, whose
\* second has no action under a path declared in the third: one warning, and
\* the mapping is returned.
C16_Witness ==
    /\ pc = "returned"
    /\ Len(sheet) = 3
    /\ WithoutAction = {1, 2}
    /\ ~AncestorDeclared(sheet[1].path)
    /\ AncestorDeclared(sheet[2].path)
    /\ warnings = <<sheet[1].path>>
    /\ Len(decls) = 1

----------------------------------------------------------------------------
(* Properties of the resolver                                              *)

\* The places in m of the actions on strict ancestors of p that are not
\* Ignore, and the nearest of them.
Above(m, p) ==
    {j \in 1..Len(m) : IsAncestor(m[j].source, p) /\ m[j].action # IGNORE}

Nearest(m, p) ==
    CHOOSE j \in Above(m, p) :
        \A k \in Above(m, p) : Len(m[k].source) <= Len(m[j].source)

\* C17: in the mapping the resolver returns no action has the kind of the
\* nearest surviving action above it that is not Ignore, and no Ignore has a
\* Copy or Move as that nearest action.
C17_NoSubsumedPair ==
    pc = "resolved" =>
        \A i \in 1..Len(resolved) :
            Above(resolved, resolved[i].source) # {} =>
                LET up == resolved[Nearest(resolved, resolved[i].source)]
                IN  /\ resolved[i].action # up.action
                    /\ resolved[i].action = IGNORE => up.action \notin {COPY, MOVE}

\* The same kind, target and priority (the excluded descendants apart).
SameDeclaration(a, b) ==
    /\ a.action = b.action
    /\ a.source = b.source
    /\ a.target = b.target
    /\ a.priority = b.priority

\* The paths on whose surviving action p is registered as excluded.
ExcludedOn(p) ==
    {resolved[j].source : j \in {k \in 1..Len(resolved) : InSeq(p, resolved[k].ign)}}

\* C18: the resolver settles each declaration against the nearest declared
\* ancestor whose declared kind is not Ignore, and against no other: the same
\* kind drops it; an Ignore under a Copy is dropped and excluded on that
\* Copy, and nowhere else; an Ignore under a Move becomes a Delete of the
\* same path and priority; anything else, and a declaration with no such
\* ancestor, stays as declared.
C18_NearestAncestorRule ==
    pc = "resolved" =>
        \A i \in 1..Len(decls) :
            LET d == decls[i]
            IN  IF Above(decls, d.source) = {}
                THEN Has(resolved, d.source) /\ SameDeclaration(Get(resolved, d.source), d)
                ELSE LET up == decls[Nearest(decls, d.source)]
                     IN  CASE up.action = d.action ->
                                ~Has(resolved, d.source)
                           [] d.action = IGNORE /\ up.action = COPY ->
                                /\ ~Has(resolved, d.source)
                                /\ ExcludedOn(d.source) = {up.source}
                           [] d.action = IGNORE /\ up.action = MOVE ->
                                /\ Has(resolved, d.source)
                                /\ Get(resolved, d.source) =
                                      NewAction(DELETE, d.source, NoPath, d.priority)
                           [] OTHER ->
                                /\ Has(resolved, d.source)
                                /\ SameDeclaration(Get(resolved, d.source), d)

\* C19: the resolver leaves the mapping it is given as it was: the same keys
\* in the same places, each Action with its kind, source, target, priority
\* and excluded descendants, on the first call and on a call on its result.
C19_InputUntouched ==
    [][/\ decls' = decls
       /\ pc = "resolved" => resolved' = resolved]_vars

\* The resolver has returned a mapping with a declaration dropped and an
\* exclusion registered on a Copy whose declaration still has none.
C19_Witness ==
    /\ pc = "resolved"
    /\ Len(resolved) < Len(decls)
    /\ \E i \in 1..Len(resolved) :
          /\ resolved[i].action = COPY
          /\ resolved[i].ign # <<>>
          /\ Get(decls, resolved[i].source).ign = <<>>

----------------------------------------------------------------------------
(* A file migrated to a containing directory                               *)

\* C20: a file copied or moved to a target whose name has no suffix, with
\* nothing at target/source.name before, is a file at target/source.name,
\* whether the target was there or not and whether the file's own name has a
\* suffix or not.
C20_FileIntoDirectory ==
    LET to == Append(TheAction.target, Name(TheAction.source))
    IN  (Returned /\ Migrates /\ IsFile(fs0, TheAction.source)
            /\ ~HasSuffix(Name(TheAction.target)) /\ ~Exists(fs0, to)) =>
            /\ IsFile(fs, to)
            /\ fs[to] = fs0[TheAction.source]
            /\ IsDir(fs, TheAction.target)

\* A file whose name has no suffix has been copied into an existing
\* directory.
C20_Witness ==
    /\ Returned
    /\ TheAction.action = COPY
    /\ IsFile(fs0, TheAction.source)
    /\ ~HasSuffix(Name(TheAction.source))
    /\ ~HasSuffix(Name(TheAction.target))
    /\ IsDir(fs0, TheAction.target)
    /\ IsFile(fs, Append(TheAction.target, Name(TheAction.source)))

----------------------------------------------------------------------------
(* The resolver and the iteration order of the mapping                     *)

\* The mappings with the entries of m, in every iteration order.
Reorderings(m) ==
    {[i \in 1..Len(m) |-> m[p[i]]] : p \in Permutations(1..Len(m))}

\* A mapping without its iteration order, each action with its excluded
\* descendants without the order they were registered in.
Entries(m) ==
    {[action   |-> m[i].action,
      source   |-> m[i].source,
      target   |-> m[i].target,
      priority |-> m[i].priority,
      excluded |-> {m[i].ign[j] : j \in 1..Len(m[i].ign)}] : i \in 1..Len(m)}

\* C21: what the resolver returns for the declarations (the paths left, each
\* with its kind, target, priority and excluded descendants) is what it
\* returns for the same declarations in any other iteration order.
C21_OrderIndependent ==
    pc = "resolved" =>
        \A m \in Reorderings(decls) :
            LET other == ConvertEncapsulatedActions(m, fs)
            IN  other.err = "" /\ Entries(other.res) = Entries(resolved)

----------------------------------------------------------------------------
(* dry_run_actions against perform_actions                                 *)

\* perform_actions on the declarations has returned or raised.
Ended == pc = "done" \/ pc = "failed"

\* The error, if any, of the same declarations on the same initial filesystem
\* in the other mode: the real run for a dry run, the dry run for a real one.
\* The resolver does not look at the mode.
OtherMode ==
    IF log = <<>> THEN err
    ELSE PerformAll(PrioritizeActions(resolved), fs0, ~dry, rev).err

\* C22: on the same declarations and the same initial filesystem,
\* dry_run_actions raises an error exactly when perform_actions raises one.
C22_DryRunPredictsRun ==
    Ended => ((err # "") <=> (OtherMode # ""))
====
